---------------------------- MODULE Spec2Model ----------------------------
(***************************************************************************)
(* video2audio: the transcoder's parameter resolution and command builder  *)
(* (transcoder.py) and the TranscodeManager job lifecycle with its Flask   *)
(* handlers (app.py).                                                      *)
(*                                                                         *)
(* Representation.                                                         *)
(*  - A filename is a pair <<stem, ext>> standing for "stem.ext".          *)
(*  - Optional[int] values (samplerate, channels) are integers with None   *)
(*    written NoneInt: every use in the source is a truthiness test or a   *)
(*    membership test, which None and 0 answer alike.                      *)
(*  - Optional[str] bitrates are strings with None written NoneStr: every  *)
(*    use in the source is a truthiness test, which None and "" answer     *)
(*    alike.                                                               *)
(*  - An ffmpeg command is the sequence of its argument strings.           *)
(***************************************************************************)
EXTENDS Integers, Sequences, FiniteSets, TLC

VARIABLES
    upload_list,      \* TranscodeManager.upload_list      (app.py:141)
    processing_list,  \* TranscodeManager.processing_list  (app.py:142)
    processed_list,   \* TranscodeManager.processed_list   (app.py:143)
    settings,         \* TranscodeManager.settings         (app.py:144)
    uploadFiles,      \* files present in UPLOAD_FOLDER    (app.py:22)
    processedFiles,   \* files present in PROCESSED_FOLDER (app.py:24)
    tasks,            \* the threads started by start_processing (app.py:170)
    cli               \* the last Video2Audio.convert call made by cli.main

vars == <<upload_list, processing_list, processed_list, settings,
          uploadFiles, processedFiles, tasks, cli>>

----------------------------------------------------------------------------
(* Python values *)

NoneInt == 0
NoneStr == ""

Range(s) == {s[i] : i \in 1..Len(s)}

\* x in list
Contains(s, x) == \E i \in 1..Len(s) : s[i] = x

\* list.remove(x): drops the first occurrence (the caller has x in the list)
RemoveFirst(s, x) ==
    LET i == CHOOSE k \in 1..Len(s) :
                 s[k] = x /\ \A j \in 1..(k - 1) : s[j] # x
    IN  SubSeq(s, 1, i - 1) \o SubSeq(s, i + 1, Len(s))

\* [f for f in s if f not in drop]
RECURSIVE FilterOut(_, _)
FilterOut(s, drop) ==
    IF s = <<>> THEN <<>>
    ELSE (IF Head(s) \in drop THEN <<>> ELSE <<Head(s)>>)
         \o FilterOut(Tail(s), drop)

\* f"{n}k" for an integer n
FormatKbps(n) == ToString(n) \o "k"

----------------------------------------------------------------------------
(* transcoder.py: CodecConfig *)

LOSSY    == {"mp3", "aac"}
LOSSLESS == {"wav", "flac"}

\* None entries of the two bitrate tables are written 0: the code only
\* tests them for truthiness.
MAX_BITRATE ==
    [mp3 |-> 320000, aac |-> 256000, wav |-> 0, flac |-> 0]

DEFAULT_BITRATE ==
    [mp3 |-> 192000, aac |-> 128000, wav |-> 0, flac |-> 0]

DEFAULT_SAMPLERATE ==
    [mp3 |-> 44100, aac |-> 48000, wav |-> 44100, flac |-> 96000]

SUPPORTED_SAMPLERATES ==
    [mp3  |-> {32000, 44100, 48000},
     aac  |-> {44100, 48000, 96000},
     wav  |-> {44100, 48000, 96000, 192000},
     flac |-> {44100, 48000, 96000, 192000}]

DEFAULT_CHANNELS == [mp3 |-> 2, aac |-> 2, wav |-> 2, flac |-> 2]

SUPPORTED_CHANNELS ==
    [mp3 |-> {1, 2}, aac |-> {1, 2}, wav |-> {1, 2, 6, 8},
     flac |-> {1, 2, 6, 8}]

\* dict.get(codec): None (0) for a key the table lacks
TableGet(table, codec) ==
    IF codec \in DOMAIN table THEN table[codec] ELSE 0

Min(a, b) == IF a <= b THEN a ELSE b
Max(a, b) == IF a >= b THEN a ELSE b

----------------------------------------------------------------------------
(* transcoder.py: Video2Audio *)

\* The bitrate floor of _determine_bitrate left out.
DetermineBitrateNoFloor(codec, input_bitrate) ==
    LET max_bitrate     == TableGet(MAX_BITRATE, codec)
        default_bitrate == TableGet(DEFAULT_BITRATE, codec)
    IN  IF codec \in LOSSLESS THEN NoneStr
        ELSE IF input_bitrate <= 0
        THEN (IF default_bitrate # 0
              THEN FormatKbps(default_bitrate \div 1000) ELSE NoneStr)
        ELSE IF max_bitrate # 0
        THEN FormatKbps(Min(input_bitrate, max_bitrate) \div 1000)
        ELSE NoneStr

DetermineBitrate(codec, input_bitrate) ==
    LET max_bitrate     == TableGet(MAX_BITRATE, codec)
        default_bitrate == TableGet(DEFAULT_BITRATE, codec)
    IN  IF codec \in LOSSLESS THEN NoneStr
        ELSE IF input_bitrate <= 0
        THEN (IF default_bitrate # 0
              THEN FormatKbps(default_bitrate \div 1000) ELSE NoneStr)
        ELSE IF default_bitrate # 0 /\ input_bitrate < default_bitrate
        THEN FormatKbps(default_bitrate \div 1000)
        ELSE IF max_bitrate # 0
        THEN FormatKbps(Min(input_bitrate, max_bitrate) \div 1000)
        ELSE NoneStr

\* _validate_params subscripts the tables: an unknown codec is a KeyError.
ValidateParams(codec, samplerate, channels) ==
    IF codec \notin DOMAIN SUPPORTED_SAMPLERATES
    THEN [error |-> "KeyError", samplerate |-> NoneInt, channels |-> NoneInt]
    ELSE [error      |-> "",
          samplerate |-> IF samplerate \notin SUPPORTED_SAMPLERATES[codec]
                         THEN DEFAULT_SAMPLERATE[codec] ELSE samplerate,
          channels   |-> IF channels \notin SUPPORTED_CHANNELS[codec]
                         THEN DEFAULT_CHANNELS[codec] ELSE channels]

FormatMap == [mp3 |-> "mp3", aac |-> "mp4", wav |-> "wav", flac |-> "flac"]

\* str(path) of a file <<stem, ext>> in a folder
PathStr(folder, f) == folder \o "/" \o f[1] \o "." \o f[2]

\* The lossy sample-rate clamp of _build_ffmpeg_command left out.
ClampSamplerateNone(codec, samplerate) == samplerate

\* transcoder.py:194-198
ClampSamplerate(codec, samplerate) ==
    IF codec \in {"mp3", "aac"} /\ samplerate # NoneInt /\ samplerate > 48000
    THEN 48000 ELSE samplerate

BuildFfmpegCommand(input_file, output_file, codec, bitrate, samplerate, channels, loudnorm, overwrite) ==
    LET fmt == IF codec \in DOMAIN FormatMap THEN FormatMap[codec] ELSE codec
        sr  == ClampSamplerate(codec, samplerate)
        br  == IF codec \in {"wav", "flac"} THEN NoneStr ELSE bitrate
    IN  <<"ffmpeg">>
        \o (IF overwrite THEN <<"-y">> ELSE <<>>)
        \o <<"-i", input_file, "-vn">>
        \o (IF loudnorm THEN <<"-af", "loudnorm=I=-16:TP=-1.5:LRA=11">>
            ELSE <<>>)
        \o (IF sr # NoneInt THEN <<"-ar", ToString(sr)>> ELSE <<>>)
        \o (IF channels # NoneInt THEN <<"-ac", ToString(channels)>>
            ELSE <<>>)
        \o (IF br # NoneStr /\ codec \in {"mp3", "aac"}
            THEN <<"-b:a", br>> ELSE <<>>)
        \o <<"-map_metadata", "0", "-f", fmt, output_file>>

\* Video2Audio.convert up to the ffmpeg call: `info` is what _get_audio_info
\* returned ([bitrate, samplerate, channels]).  The result carries the
\* resolved parameters and the command, or the exception raised.
Convert(input_file, output_file, codec, bitrate, samplerate, channels, loudnorm, overwrite, auto, info) ==
    LET br == IF auto
              THEN (IF bitrate # NoneStr THEN bitrate
                    ELSE DetermineBitrate(codec, info.bitrate))
              ELSE bitrate
        sr == IF auto
              THEN (IF samplerate # NoneInt THEN samplerate
                    ELSE info.samplerate)
              ELSE samplerate
        ch == IF auto
              THEN (IF channels # NoneInt THEN channels ELSE info.channels)
              ELSE channels
        v  == ValidateParams(codec, sr, ch)
    IN  IF v.error # ""
        THEN [error |-> v.error, bitrate |-> br, samplerate |-> NoneInt,
              channels |-> NoneInt, cmd |-> <<>>]
        ELSE [error |-> "", bitrate |-> br, samplerate |-> v.samplerate,
              channels |-> v.channels,
              cmd |-> BuildFfmpegCommand(input_file, output_file, codec, br,
                                         v.samplerate, v.channels, loudnorm,
                                         overwrite)]

----------------------------------------------------------------------------
(* app.py: helpers, codec defaults and validation *)

\* str.lower() on the codec ids and extensions the model draws from
Lower(s) ==
    CASE s = "MP4" -> "mp4"
      [] s = "WAV" -> "wav"
      [] s = "OGG" -> "ogg"
      [] OTHER     -> s

\* clean_filename on "stem.ext": the stems the model draws from hold only
\* [a-zA-Z0-9] characters, which the two re.sub calls keep; an empty stem
\* becomes "file"; the extension is lower-cased.
CleanFilename(f) ==
    <<IF f[1] = "" THEN "file" ELSE f[1], Lower(f[2])>>

\* f"{Path(f).stem}.{output_ext}"
WithExt(f, ext) == <<f[1], ext>>

CODEC_DEFAULTS ==
    [mp3  |-> [bitrate |-> "192k", samplerate |-> 44100, channels |-> 2,
               lossless |-> FALSE],
     aac  |-> [bitrate |-> "256k", samplerate |-> 44100, channels |-> 2,
               lossless |-> FALSE],
     wav  |-> [bitrate |-> NoneStr, samplerate |-> 44100, channels |-> 2,
               lossless |-> TRUE],
     flac |-> [bitrate |-> NoneStr, samplerate |-> 44100, channels |-> 2,
               lossless |-> TRUE]]

VALID_SAMPLE_RATES ==
    [mp3  |-> {32000, 44100, 48000},
     aac  |-> {44100, 48000},
     wav  |-> {44100, 48000, 88200, 96000, 192000},
     flac |-> {44100, 48000, 88200, 96000, 192000}]

\* Largest magnitude the model parses in a bitrate string.
MaxParse == 600

\* int(bitrate.replace("k", "")) for the strings "<n>" and "<n>k"; anything
\* else raises (ok = FALSE).
ParseKbps(bitrate) ==
    LET hits == {n \in (0 - MaxParse)..MaxParse :
                    bitrate = ToString(n) \/ bitrate = FormatKbps(n)}
    IN  IF hits = {} THEN [ok |-> FALSE, kbps |-> 0]
        ELSE [ok |-> TRUE, kbps |-> CHOOSE n \in hits : TRUE]

ValidateSettings(codec0, bitrate, samplerate, channels) ==
    LET lowered  == Lower(codec0)
        codec    == IF lowered \notin DOMAIN CODEC_DEFAULTS THEN "mp3"
                    ELSE lowered
        defaults == CODEC_DEFAULTS[codec]
        lossless == defaults.lossless
        parsed   == ParseKbps(bitrate)
        kbps     == CASE codec = "mp3" -> Min(Max(parsed.kbps, 32), 320)
                      [] codec = "aac" -> Min(Max(parsed.kbps, 64), 256)
                      [] OTHER         -> parsed.kbps
    IN  [codec      |-> codec,
         bitrate    |-> IF lossless THEN NoneStr
                        ELSE IF bitrate # NoneStr
                        THEN (IF parsed.ok THEN FormatKbps(kbps)
                              ELSE defaults.bitrate)
                        ELSE defaults.bitrate,
         samplerate |-> IF samplerate \notin VALID_SAMPLE_RATES[codec]
                        THEN defaults.samplerate ELSE samplerate,
         channels   |-> IF codec \in {"mp3", "aac"}
                        THEN (IF channels \notin {1, 2} THEN 2 ELSE channels)
                        ELSE (IF channels = NoneInt THEN defaults.channels
                              ELSE channels),
         lossless   |-> lossless]

\* TranscodeSettings(): the dataclass defaults
TranscodeSettings ==
    [codec |-> "mp3", bitrate |-> NoneStr, samplerate |-> NoneInt,
     channels |-> NoneInt, lossless |-> FALSE]

----------------------------------------------------------------------------
(* Inputs of the model *)

\* Threads start_processing may start in one run.
MaxTasks == 2
\* Longest filename list a request carries.
MaxBatch == 2

\* Filenames the clients name in start_processing and clear_uploads.
FileNames == {<<"a", "mp4">>, <<"b", "mp4">>}

\* Filenames of uploaded files, as the browser sends them ("" is a form
\* part without a filename).
RawNames == {<<"a", "mp4">>, <<"b", "MP4">>, <<"", "">>}

SeqsUpTo(S, n) == UNION {[1..k -> S] : k \in 0..n}

\* The first names of a list, up to MaxBatch of them.
Prefixes(order) ==
    {SubSeq(order, 1, k) : k \in 0..Min(MaxBatch, Len(order))}

\* The filename lists of start_processing in the runs with one batch.
NameLists == SeqsUpTo(FileNames, MaxBatch)

\* The filename lists of start_processing in the runs with concurrent
\* batches.
Batches == Prefixes(<< <<"a", "mp4">>, <<"b", "mp4">>, <<"a", "mp4">> >>)

\* The file lists of upload and the filename lists of clear_uploads.
RawLists ==
    SeqsUpTo(RawNames, 1)
        \cup Prefixes(<< <<"a", "mp4">>, <<"b", "MP4">>, <<"", "">> >>)
ClearLists == SeqsUpTo(FileNames, 1) \cup Batches

\* Bodies of POST /settings: one that keeps the codec of the initial
\* settings, one that changes it.
SameCodecPayload ==
    [codec |-> "ogg", bitrate |-> "500k", samplerate |-> 22050,
     channels |-> 6]
OtherCodecPayload ==
    [codec |-> "WAV", bitrate |-> "320k", samplerate |-> 96000,
     channels |-> 6]
Payloads == {SameCodecPayload, OtherCodecPayload}

\* Bodies of POST /settings over the four codecs, with sample rates and
\* channel counts inside and outside the tables of both modules, and no
\* bitrate.
LayerPayloads ==
    [codec : {"mp3", "aac", "wav", "flac"}, bitrate : {NoneStr},
     samplerate : {48000, 88200}, channels : {1, 3}]

\* Artifacts an earlier run of the server may have left in PROCESSED_FOLDER.
StaleArtifacts == {<<"a", "mp3">>}

\* What ffprobe reports for an uploaded file.
ProbeInfos ==
    {[bitrate |-> 0, samplerate |-> 44100, channels |-> 2],
     [bitrate |-> 256000, samplerate |-> 96000, channels |-> 6]}

\* How one convert call of a task ends.
Outcomes == {"ok", "probe_err", "encode_err"}

NoFile == <<"", "">>

----------------------------------------------------------------------------
(* TranscodeManager and the Flask handlers *)

NoCall == [called |-> FALSE]

\* The values that follow the flag in a command.
FlagValues(cmd, flag) ==
    {cmd[i + 1] : i \in {j \in 1..(Len(cmd) - 1) : cmd[j] = flag}}

\* No command built yet for the current name.
NoEmit == [ar |-> {}, ac |-> {}]

\* No convert call made yet for the current name.
NoArgs == [codec |-> "", bitrate |-> NoneStr, samplerate |-> NoneInt,
           channels |-> NoneInt]

Init ==
    /\ upload_list = <<>>
    /\ processing_list = <<>>
    /\ processed_list = <<>>
    /\ settings = TranscodeSettings
    /\ uploadFiles = {}
    /\ processedFiles \in SUBSET StaleArtifacts
    /\ tasks = <<>>
    /\ cli = NoCall

\* The loop of save_uploads over the request's files: [list, files].
RECURSIVE SaveLoop(_, _, _)
SaveLoop(files, list, saved) ==
    IF files = <<>> THEN [list |-> list, saved |-> saved]
    ELSE LET f == Head(files)
             safe_name == CleanFilename(f)
         IN  IF f = NoFile
             THEN SaveLoop(Tail(files), list, saved)
             ELSE SaveLoop(Tail(files),
                           IF ~Contains(list, safe_name)
                           THEN Append(list, safe_name) ELSE list,
                           saved \cup {safe_name})

\* POST /upload
SaveUploads(files) ==
    LET r == SaveLoop(files, upload_list, uploadFiles)
    IN  /\ upload_list' = r.list
        /\ uploadFiles' = r.saved
        /\ UNCHANGED <<processing_list, processed_list, settings,
                       processedFiles, tasks, cli>>

\* The loop of start_processing: [pending, active, moved], moved being the
\* positions of the request's list whose name went from pending to active.
RECURSIVE MoveLoop(_, _, _, _, _)
MoveLoop(filenames, i, pending, active, moved) ==
    IF i > Len(filenames)
    THEN [pending |-> pending, active |-> active, moved |-> moved]
    ELSE LET f == filenames[i]
         IN  IF Contains(pending, f)
             THEN MoveLoop(filenames, i + 1, RemoveFirst(pending, f),
                           Append(active, f), moved \cup {i})
             ELSE MoveLoop(filenames, i + 1, pending, active, moved)

\* threading.Thread(target=self._process_files, args=(filenames,)): the
\* thread is handed all of the request's names.  `moved`, `dirty`, `used`
\* and `prev` are history: the positions start_processing moved, whether the
\* settings changed since the thread began its current name, the arguments
\* of its convert call for the current name, and the codec of its convert
\* call for the name before.
NewTask(filenames, moved) ==
    LET files == filenames
    IN  [pc      |-> IF files = <<>> THEN "done" ELSE "begin",
         files   |-> files,
         moved   |-> moved,
         idx     |-> 1,
         out     |-> NoFile,
         bitrate |-> NoneStr,
         res     |-> "",
         dirty   |-> FALSE,
         used    |-> NoArgs,
         emit    |-> NoEmit,
         prev    |-> ""]

\* POST /start_processing
StartProcessing(filenames) ==
    /\ LET r == MoveLoop(filenames, 1, upload_list, processing_list, {})
       IN  /\ upload_list' = r.pending
           /\ processing_list' = r.active
           /\ tasks' = Append(tasks, NewTask(filenames, r.moved))
    /\ UNCHANGED <<processed_list, settings, uploadFiles, processedFiles,
                   cli>>

\* The settings a thread reads through self.settings.
ReadSettingsDefault == TranscodeSettings

ReadSettings == settings

\* The pc values at which a thread is inside the body of its for loop,
\* past line 178.
InBody == {"bitrate", "convert", "fin_active", "fin_remove", "fin_exists",
           "fin_in", "fin_append"}

\* The pc values of the finally block, reached after the convert call.
AfterConvert == {"fin_active", "fin_remove", "fin_exists", "fin_in",
                 "fin_append"}

\* validate_settings on the request bodies of the model
Validated ==
    [data \in Payloads |->
        ValidateSettings(data.codec, data.bitrate, data.samplerate,
                         data.channels)]
    @@ [data \in LayerPayloads |->
           ValidateSettings(data.codec, data.bitrate, data.samplerate,
                            data.channels)]

\* POST /settings
UpdateSettings(data) ==
    LET validated == Validated[data]
    IN  /\ settings' = validated
        /\ tasks' = [t \in DOMAIN tasks |->
                        IF tasks[t].pc \in InBody /\ validated # settings
                        THEN [tasks[t] EXCEPT !.dirty = TRUE]
                        ELSE tasks[t]]
        /\ UNCHANGED <<upload_list, processing_list, processed_list,
                       uploadFiles, processedFiles, cli>>

\* The loop of clear_uploads; `failing` are the files whose unlink raises.
RECURSIVE ClearLoop(_, _, _, _)
ClearLoop(files, failing, list, present) ==
    IF files = <<>> THEN [list |-> list, present |-> present]
    ELSE LET f == Head(files)
         IN  IF f \in present /\ f \notin failing
             THEN ClearLoop(Tail(files), failing,
                            IF Contains(list, f) THEN RemoveFirst(list, f)
                            ELSE list,
                            present \ {f})
             ELSE ClearLoop(Tail(files), failing, list, present)

\* POST /clear_uploads
ClearUploads(files, failing) ==
    LET r == ClearLoop(files, failing, upload_list, uploadFiles)
    IN  /\ upload_list' = r.list
        /\ uploadFiles' = r.present
        /\ UNCHANGED <<processing_list, processed_list, settings,
                       processedFiles, tasks, cli>>

\* POST /clear_processed; `failing` are the files whose unlink raises.
ClearProcessed(failing) ==
    LET deleted_files ==
            (Range(processed_list) \cap processedFiles) \ failing
    IN  /\ processedFiles' = processedFiles \ deleted_files
        /\ processed_list' = FilterOut(processed_list, deleted_files)
        /\ UNCHANGED <<upload_list, processing_list, settings, uploadFiles,
                       tasks, cli>>

----------------------------------------------------------------------------
(* TranscodeManager._process_files, one action per shared read or write *)

Running(t) == t \in DOMAIN tasks /\ tasks[t].pc \notin {"done", "crashed"}

CurrentFile(t) == tasks[t].files[tasks[t].idx]

\* A thread that returned from _process_files.
Done == NewTask(<<>>, {})

\* The next iteration of `for f in files`, or the end of the thread.
NextFile(task) ==
    IF task.idx < Len(task.files)
    THEN [task EXCEPT !.pc = "begin", !.idx = task.idx + 1, !.out = NoFile,
                      !.res = "", !.dirty = FALSE, !.used = NoArgs,
                      !.emit = NoEmit,
                      !.prev = task.used.codec, !.moved = @ \ {task.idx}]
    ELSE Done

\* app.py:175-178: output_ext = self.settings.codec, output_name
Begin(t) ==
    /\ Running(t) /\ tasks[t].pc = "begin"
    /\ tasks' = [tasks EXCEPT ![t] =
                    [@ EXCEPT !.pc = "bitrate",
                              !.out = CleanFilename(
                                  WithExt(CurrentFile(t), ReadSettings.codec)),
                              !.dirty = FALSE]]
    /\ UNCHANGED <<upload_list, processing_list, processed_list, settings,
                   uploadFiles, processedFiles, cli>>

\* app.py:186
ReadBitrate(t) ==
    /\ Running(t) /\ tasks[t].pc = "bitrate"
    /\ tasks' = [tasks EXCEPT ![t] =
                    [@ EXCEPT !.pc = "convert",
                              !.bitrate = IF ReadSettings.lossless
                                          THEN NoneStr
                                          ELSE ReadSettings.bitrate]]
    /\ UNCHANGED <<upload_list, processing_list, processed_list, settings,
                   uploadFiles, processedFiles, cli>>

\* app.py:188-199: the call of convert with the arguments read from
\* self.settings, ffprobe, the resolution and ffmpeg.  `outcome` is how the
\* two external processes end; `leaves` tells whether a failing ffmpeg
\* leaves a (partial) output file behind.  ffprobe fails on a file that is
\* not in UPLOAD_FOLDER; every exception is caught and logged.
CallConvert(t, outcome, info, leaves) ==
    /\ Running(t) /\ tasks[t].pc = "convert"
    /\ CurrentFile(t) \notin uploadFiles => outcome = "probe_err"
    /\ LET task == tasks[t]
           s    == ReadSettings
           r    == Convert(PathStr("uploads", CurrentFile(t)),
                           PathStr("processed", task.out),
                           s.codec, task.bitrate, s.samplerate, s.channels,
                           FALSE, TRUE, TRUE, info)
           res  == IF outcome = "probe_err" THEN "probe_err"
                   ELSE IF r.error # "" THEN r.error
                   ELSE outcome
           call == [codec |-> s.codec, bitrate |-> task.bitrate,
                    samplerate |-> s.samplerate, channels |-> s.channels]
           emit == IF res \in {"ok", "encode_err"}
                   THEN [ar |-> FlagValues(r.cmd, "-ar"),
                         ac |-> FlagValues(r.cmd, "-ac")]
                   ELSE NoEmit
       IN  /\ tasks' = [tasks EXCEPT ![t] =
                           [@ EXCEPT !.pc = "fin_active", !.bitrate = NoneStr,
                                     !.res = res, !.used = call,
                                     !.emit = emit]]
           /\ processedFiles' =
                  IF res = "ok" \/ (res = "encode_err" /\ leaves)
                  THEN processedFiles \cup {task.out} ELSE processedFiles
    /\ UNCHANGED <<upload_list, processing_list, processed_list, settings,
                   uploadFiles, cli>>

\* app.py:201: if f in self.processing_list
FinActive(t) ==
    /\ Running(t) /\ tasks[t].pc = "fin_active"
    /\ tasks' = [tasks EXCEPT ![t].pc =
                    IF Contains(processing_list, CurrentFile(t))
                    THEN "fin_remove" ELSE "fin_exists"]
    /\ UNCHANGED <<upload_list, processing_list, processed_list, settings,
                   uploadFiles, processedFiles, cli>>

\* app.py:202: self.processing_list.remove(f); a ValueError raised in the
\* finally block ends the thread.
FinRemove(t) ==
    /\ Running(t) /\ tasks[t].pc = "fin_remove"
    /\ IF Contains(processing_list, CurrentFile(t))
       THEN /\ processing_list' = RemoveFirst(processing_list, CurrentFile(t))
            /\ tasks' = [tasks EXCEPT ![t].pc = "fin_exists"]
       ELSE /\ processing_list' = processing_list
            /\ tasks' = [tasks EXCEPT ![t].pc = "crashed"]
    /\ UNCHANGED <<upload_list, processed_list, settings, uploadFiles,
                   processedFiles, cli>>

\* Completion decided by the exit status of the convert call.
ArtifactSeenByStatus(t) == tasks[t].res = "ok"

\* app.py:203, first operand: output_path.exists()
ArtifactSeen(t) == tasks[t].out \in processedFiles

FinExists(t) ==
    /\ Running(t) /\ tasks[t].pc = "fin_exists"
    /\ tasks' = [tasks EXCEPT ![t] =
                    IF ArtifactSeen(t) THEN [@ EXCEPT !.pc = "fin_in"]
                    ELSE NextFile(@)]
    /\ UNCHANGED <<upload_list, processing_list, processed_list, settings,
                   uploadFiles, processedFiles, cli>>

\* app.py:203, second operand: output_name not in self.processed_list
FinIn(t) ==
    /\ Running(t) /\ tasks[t].pc = "fin_in"
    /\ tasks' = [tasks EXCEPT ![t] =
                    IF ~Contains(processed_list, tasks[t].out)
                    THEN [@ EXCEPT !.pc = "fin_append"]
                    ELSE NextFile(@)]
    /\ UNCHANGED <<upload_list, processing_list, processed_list, settings,
                   uploadFiles, processedFiles, cli>>

\* app.py:204: self.processed_list.append(output_name)
FinAppend(t) ==
    /\ Running(t) /\ tasks[t].pc = "fin_append"
    /\ processed_list' = Append(processed_list, tasks[t].out)
    /\ tasks' = [tasks EXCEPT ![t] = NextFile(@)]
    /\ UNCHANGED <<upload_list, processing_list, settings, uploadFiles,
                   processedFiles, cli>>

TaskStep(t) ==
    \/ Begin(t)
    \/ ReadBitrate(t)
    \/ \E outcome \in Outcomes, info \in ProbeInfos, leaves \in BOOLEAN :
           CallConvert(t, outcome, info, leaves)
    \/ FinActive(t)
    \/ FinRemove(t)
    \/ FinExists(t)
    \/ FinIn(t)
    \/ FinAppend(t)

\* The requests that touch the three lists, and the threads.
Lifecycle ==
    \/ \E files \in RawLists : SaveUploads(files)
    \/ \E files \in ClearLists : \E failing \in SUBSET Range(files) :
           ClearUploads(files, failing)
    \/ \E failing \in SUBSET Range(processed_list) : ClearProcessed(failing)
    \/ \E t \in 1..MaxTasks : TaskStep(t)

\* Runs with up to MaxTasks concurrent batches under settings that stay as
\* they are.
Next ==
    \/ Lifecycle
    \/ \E filenames \in Batches :
           Len(tasks) < MaxTasks /\ StartProcessing(filenames)

Spec == Init /\ [][Next]_vars

\* Runs with one batch and settings updates at any moment.
NextSettings ==
    \/ Lifecycle
    \/ \E filenames \in NameLists :
           tasks = <<>> /\ StartProcessing(filenames)
    \/ \E data \in Payloads : UpdateSettings(data)

SpecSettings == Init /\ [][NextSettings]_vars

\* The threads are scheduled fairly and every external call returns.
\* One upload and one batch of one file, under settings updates over the
\* four codecs.
NextLayers ==
    \/ SaveUploads(<< <<"a", "mp4">> >>)
    \/ tasks = <<>> /\ StartProcessing(<< <<"a", "mp4">> >>)
    \/ \E data \in LayerPayloads : UpdateSettings(data)
    \/ \E t \in 1..MaxTasks : TaskStep(t)

SpecLayers == Init /\ [][NextLayers]_vars

FairSpec == Spec /\ \A t \in 1..MaxTasks : WF_vars(TaskStep(t))

----------------------------------------------------------------------------
(* cli.py: one run of the command line *)

\* Largest multiple of 16 kbit/s among the probed bitrates.
MaxProbedStep == 24

\* --codec, --bitrate, --samplerate, --channels
CliCodecs      == {"mp3", "aac", "wav", "flac", "ogg"}
CliBitrates    == {NoneStr, "128k"}
CliSamplerates == {NoneInt, 22050, 44100, 48000, 96000, 192000}
CliChannels    == {NoneInt, 1, 6}

\* bit_rate, sample_rate and channels of the first audio stream
ProbedBitrates ==
    {k * 16000 : k \in 0..MaxProbedStep}
        \cup {127999, 128001, 191999, 192001, 192999, 255999, 256001,
              319999, 320001, 320999, 500000, 999000}
ProbedSamplerates == {8000, 44100, 96000, 192000}
ProbedChannels    == {2, 6}

NoInfo == [bitrate |-> 0, samplerate |-> 0, channels |-> 0]

\* What _get_audio_info can return.
CliInfos ==
    [bitrate : ProbedBitrates, samplerate : ProbedSamplerates,
     channels : ProbedChannels]

\* cli.main: parse_args and the one call of Video2Audio.convert.  A failing
\* ffprobe (auto only) raises RuntimeError before anything is resolved; the
\* exit status of ffmpeg is not recorded.
CliMain(codec, bitrate, samplerate, channels, loudnorm, auto, probe_ok, info) ==
    /\ cli = NoCall
    /\ cli' = [called     |-> TRUE,
               codec      |-> codec,
               bitrate    |-> bitrate,
               samplerate |-> samplerate,
               channels   |-> channels,
               loudnorm   |-> loudnorm,
               auto       |-> auto,
               probe_ok   |-> probe_ok,
               info       |-> info,
               result     |->
                   IF auto /\ ~probe_ok
                   THEN [error |-> "RuntimeError", bitrate |-> NoneStr,
                         samplerate |-> NoneInt, channels |-> NoneInt,
                         cmd |-> <<>>]
                   ELSE Convert("in.mp4", "out", codec, bitrate, samplerate,
                                channels, loudnorm, TRUE, auto, info)]
    /\ UNCHANGED <<upload_list, processing_list, processed_list, settings,
                   uploadFiles, processedFiles, tasks>>

\* Without --auto nothing is probed.
NextCli ==
    /\ cli = NoCall
    /\ \E codec \in CliCodecs, bitrate \in CliBitrates,
          samplerate \in CliSamplerates, channels \in CliChannels,
          loudnorm \in BOOLEAN :
          \/ CliMain(codec, bitrate, samplerate, channels, loudnorm, FALSE,
                     TRUE, NoInfo)
          \/ CliMain(codec, bitrate, samplerate, channels, loudnorm, TRUE,
                     FALSE, NoInfo)
          \/ \E info \in CliInfos :
                 CliMain(codec, bitrate, samplerate, channels, loudnorm,
                         TRUE, TRUE, info)

SpecCli == Init /\ [][NextCli]_vars

----------------------------------------------------------------------------
(* Properties of the job lifecycle *)

InBuckets(f) ==
    {b \in {"Pending", "Active", "Completed"} :
        \/ b = "Pending" /\ Contains(upload_list, f)
        \/ b = "Active" /\ Contains(processing_list, f)
        \/ b = "Completed" /\ Contains(processed_list, f)}

Listed ==
    Range(upload_list) \cup Range(processing_list) \cup Range(processed_list)

\* C1: no filename is in more than one of upload_list, processing_list and
\* processed_list.
C1_OneBucketPerName == \A f \in Listed : Cardinality(InBuckets(f)) <= 1

AllEnded ==
    tasks # <<>> /\ \A t \in DOMAIN tasks : tasks[t].pc \in {"done", "crashed"}

\* C2: every name start_processing moved into Active is removed from it
\* again: once every thread has ended, nothing is left in processing_list.
C2_ActiveDrained == AllEnded => processing_list = <<>>

\* C3: a failure at one name of a batch never stops the thread: no thread
\* ends before the last name of its list.
C3_BatchContinues ==
    \A t \in DOMAIN tasks :
        tasks[t].pc = "crashed" => tasks[t].idx = Len(tasks[t].files)

\* C4: processed_list holds each name at most once.
C4_CompletedOnce ==
    \A i, j \in 1..Len(processed_list) :
        i # j => processed_list[i] # processed_list[j]

\* The thread goes on to the next name of its list, or returns.
MovesOn(t) == tasks'[t].pc \in {"begin", "done"}

\* C5: whether a thread records the output name in processed_list is
\* decided by the existence of the output file at the moment of the check,
\* whatever the convert call returned: if the file exists the thread goes
\* on to the insertion and leaves the name in processed_list when it moves
\* on; if it does not, the thread moves on and processed_list is as it was.
C5_CompletionByArtifact ==
    [][\A t \in DOMAIN tasks :
          LET task == tasks[t]
          IN  /\ (task.pc = "fin_exists" /\ tasks'[t].pc # "fin_exists") =>
                     IF task.out \in processedFiles
                     THEN tasks'[t].pc = "fin_in"
                     ELSE MovesOn(t) /\ processed_list' = processed_list
              /\ (task.pc \in {"fin_in", "fin_append"} /\ MovesOn(t)) =>
                     Contains(processed_list', task.out)]_vars

\* C5, witness: a thread whose ffprobe failed, so that its convert call
\* wrote nothing, found an output file and is about to append the name.
C5_StaleArtifactCompleted ==
    \E t \in DOMAIN tasks :
        /\ tasks[t].pc = "fin_append"
        /\ tasks[t].res = "probe_err"
        /\ tasks[t].out \in processedFiles

\* C5, second case: the convert call succeeded and the output file is gone
\* when the thread checks for it.
C5_SuccessWithoutArtifact ==
    \E t \in DOMAIN tasks :
        /\ tasks[t].pc = "fin_exists"
        /\ tasks[t].res = "ok"
        /\ tasks[t].out \notin processedFiles

\* C6: a thread calls convert only for the names start_processing moved
\* from Pending to Active.
C6_OnlyMovedNamesConverted ==
    \A t \in DOMAIN tasks :
        tasks[t].pc \in AfterConvert => tasks[t].idx \in tasks[t].moved

\* The arguments _process_files passes to convert under settings s.
ArgsOf(s) ==
    [codec |-> s.codec,
     bitrate |-> IF s.lossless THEN NoneStr ELSE s.bitrate,
     samplerate |-> s.samplerate, channels |-> s.channels]

\* C7: a name whose processing began after the last settings update is
\* converted with the updated settings, whatever the settings were when it
\* was submitted.
C7_SettingsAtResolveTime ==
    \A t \in DOMAIN tasks :
        (tasks[t].pc \in AfterConvert /\ ~tasks[t].dirty) =>
            /\ tasks[t].used = ArgsOf(settings)
            /\ tasks[t].out = <<CurrentFile(t)[1], settings.codec>>

\* C7, witness: the second name of a batch, moved into Active together with
\* the first, was converted with a codec other than that of the first.
C7_TwoSettingsInOneBatch ==
    \E t \in DOMAIN tasks :
        /\ tasks[t].pc \in AfterConvert
        /\ ~tasks[t].dirty
        /\ tasks[t].idx = 2
        /\ 2 \in tasks[t].moved
        /\ tasks[t].prev # ""
        /\ tasks[t].used.codec # tasks[t].prev
        /\ tasks[t].used = ArgsOf(settings)

----------------------------------------------------------------------------
(* Properties of the parameter resolution *)

Resolved == cli.called /\ (cli.auto => cli.probe_ok)

\* C8: a codec outside mp3, aac, wav and flac resolves without error to
\* what mp3 resolves to on the same inputs.
C8_UnknownCodecAsMp3 ==
    (Resolved /\ cli.codec \notin (LOSSY \cup LOSSLESS)) =>
        /\ cli.result.error = ""
        /\ cli.result = Convert("in.mp4", "out", "mp3", cli.bitrate,
                                cli.samplerate, cli.channels, cli.loudnorm,
                                TRUE, cli.auto, cli.info)

\* The bitrate the policy names for a codec and a probed bitrate.
PolicyBitrate(codec, b) ==
    IF codec \in LOSSLESS THEN NoneStr
    ELSE IF b <= 0 \/ b < DEFAULT_BITRATE[codec]
    THEN FormatKbps(DEFAULT_BITRATE[codec] \div 1000)
    ELSE FormatKbps(Min(b, MAX_BITRATE[codec]) \div 1000)

\* C9: without a bitrate override, the resolved bitrate of mp3, aac, wav and
\* flac is None for a lossless codec, the codec default for a probed
\* bitrate that is unknown or below the default, and the probed bitrate
\* capped at the codec maximum otherwise; for a lossy codec it lies between
\* the default and the maximum.
C9_BitratePolicy ==
    (Resolved /\ cli.auto /\ cli.bitrate = NoneStr
              /\ cli.codec \in (LOSSY \cup LOSSLESS)) =>
        /\ cli.result.error = ""
        /\ cli.result.bitrate = PolicyBitrate(cli.codec, cli.info.bitrate)
        /\ cli.codec \in LOSSY =>
               cli.result.bitrate \in
                   {FormatKbps(k) :
                       k \in (DEFAULT_BITRATE[cli.codec] \div 1000)
                             ..(MAX_BITRATE[cli.codec] \div 1000)}
        /\ (cli.codec = "mp3" /\ cli.info.bitrate = 0) =>
               cli.result.bitrate = "192k"
        /\ (cli.codec = "mp3" /\ cli.info.bitrate = 64000) =>
               cli.result.bitrate = "192k"
        /\ (cli.codec = "mp3" /\ cli.info.bitrate = 500000) =>
               cli.result.bitrate = "320k"
        /\ (cli.codec = "flac" /\ cli.info.bitrate = 999000) =>
               cli.result.bitrate = NoneStr

\* C9, witness: an mp3 conversion of a 64 kbit/s source resolved to the
\* codec default.
C9_LowSourceBumped ==
    /\ Resolved /\ cli.auto /\ cli.bitrate = NoneStr
    /\ cli.codec = "mp3" /\ cli.info.bitrate = 64000
    /\ cli.result.bitrate = "192k"

\* The sample rates of the model, by their decimal form.
RateOfToken ==
    LET rates == CliSamplerates \cup ProbedSamplerates
                     \cup UNION {SUPPORTED_SAMPLERATES[c] :
                                    c \in DOMAIN SUPPORTED_SAMPLERATES}
    IN  [tok \in {ToString(r) : r \in rates} |->
            CHOOSE r \in rates : ToString(r) = tok]

\* C10: for mp3 and aac the command carries one -ar flag, and its value is
\* never above 48000.
C10_LossyClamp ==
    (Resolved /\ cli.codec \in {"mp3", "aac"}) =>
        /\ cli.result.error = ""
        /\ Cardinality(FlagValues(cli.result.cmd, "-ar")) = 1
        /\ \A tok \in FlagValues(cli.result.cmd, "-ar") :
               tok \in DOMAIN RateOfToken /\ RateOfToken[tok] <= 48000

\* C10, witness: an aac override of 96000 passed the table and is emitted
\* as 48000.
C10_AacOverrideClamped ==
    /\ Resolved /\ cli.codec = "aac" /\ cli.samplerate = 96000
    /\ cli.result.samplerate = 96000
    /\ FlagValues(cli.result.cmd, "-ar") = {"48000"}

----------------------------------------------------------------------------
(* Properties across the settings update and the transcoder *)

\* The values self.settings takes: the dataclass defaults and what
\* update_settings stores for the request bodies.
SettingsValues == {TranscodeSettings} \cup {Validated[data] : data \in Payloads}

\* C11: every file is converted under one settings value: the extension of
\* its output name, the codec passed to convert and the bitrate, sample rate
\* and channels passed to convert are those of a single value of
\* self.settings, also when update_settings runs while the thread is in the
\* body of its loop.
C11_OneSnapshotPerFile ==
    \A t \in DOMAIN tasks :
        (tasks[t].pc \in AfterConvert /\ tasks[t].idx \in tasks[t].moved) =>
            \E s \in SettingsValues :
                /\ tasks[t].out = <<CurrentFile(t)[1], s.codec>>
                /\ tasks[t].used = ArgsOf(s)

\* C12: what update_settings stored as sample rate and channel count is
\* what the command of a conversion run under those settings carries after
\* -ar and -ac: _validate_params and the lossy clamp change neither.
C12_LayersAgree ==
    \A t \in DOMAIN tasks :
        (/\ tasks[t].pc \in AfterConvert
         /\ ~tasks[t].dirty
         /\ tasks[t].res \in {"ok", "encode_err"}
         /\ settings \in {Validated[data] : data \in LayerPayloads}) =>
            /\ tasks[t].emit.ar = {ToString(settings.samplerate)}
            /\ tasks[t].emit.ac = {ToString(settings.channels)}

=============================================================================
